---- MODULE Spec2Model ----
(***************************************************************************)
(* A model of src/src/vulkan.rs: the set-up sequence of Vulkan::setup, the *)
(* physical device selection, and the closure handed to EventLoop::run.    *)
(*                                                                         *)
(* The program is single threaded.  The closure runs to completion for     *)
(* one event at a time, but the window (its size, the user closing it) and *)
(* the presentation engine change behind its back, so the redraw handler   *)
(* is split at its calls into the driver and environment steps may         *)
(* interleave with them.                                                   *)
(***************************************************************************)
EXTENDS Integers, Sequences, FiniteSets, TLC

(* ---------------------------- bounds ---------------------------------- *)

\* Window widths range over 0..MaxDim (0 = minimised).
MaxDim == 2
\* Window events that can wait in the event queue.
MaxEvents == 1
\* Successful swapchain recreations in one run (bounds the swapchain ids).
MaxRecreations == 2
\* Largest number of images a swapchain holds.
MaxImages == 2
\* Physical devices enumerated, and queue families in the whole enumeration.
MaxDevices == 2
MaxQueueFamilies == 2

(* ---------------------------- values ---------------------------------- *)

None == [tag |-> "None"]
Some(x) == [tag |-> "Some", v |-> x]

\* Window sizes [width, height]: the minimised window, and windows one unit
\* high and 1..MaxDim wide.
Sizes == {<<0, 0>>} \cup {<<w, 1>> : w \in 1..MaxDim}

\* `as f32` on a u32: exact up to 2^24, above that rounded to the nearest
\* representable value (a multiple of the unit in the last place, ties to even).
RECURSIVE Ulp(_, _)
Ulp(n, u) == IF n < 16777216 * u THEN u ELSE Ulp(n, 2 * u)

AsF32(n) ==
    LET u == Ulp(n, 1)
        lo == (n \div u) * u
        r == n - lo
    IN  IF 2 * r < u THEN lo
        ELSE IF 2 * r > u THEN lo + u
        ELSE IF (lo \div u) % 2 = 0 THEN lo ELSE lo + u

VARIABLES
    pc,                   \* where the program is (set-up step, loop, tick step)
    control_flow,         \* *control_flow of the event loop
    events,               \* window events queued by the platform, oldest first
    window_size,          \* surface.window().inner_size(), live
    close_sent,           \* the user has asked to close the window
    caps_min_image_count, \* surface capabilities: min_image_count
    swapchain,            \* self.swapchain
    images,               \* self.images
    vertex_buffer,        \* self.vertex_buffer
    viewport,             \* self.viewport
    framebuffers,         \* self.framebuffers
    recreate_swapchain,   \* self.recreate_swapchain (needs_recreate)
    previous_frame_end,   \* self.previous_frame_end
    image_num,            \* tick local: index returned by acquire_next_image
    suboptimal,           \* tick local
    acquire_future,       \* tick local
    command_buffer,       \* tick local: what the tick recorded
    present,              \* tick history: what was handed to the queue
    future,               \* tick local: the result of the flush
    resizes_handled,      \* history: Resized events handled ahead of the tick's acquire
    frame_recorded,       \* history: an earlier tick has recorded and submitted a frame
    next_id,              \* identity of the next swapchain object created
    last_step,            \* history: the outcome of the last program step
    recreate_read,        \* history: dimensions read by the last successful recreation
    ticks_after_exit,     \* history: redraw ticks started with control_flow = Exit
    devices,              \* PhysicalDevice::enumerate, in enumeration order
    physical_device_index,
    queue_family_id

vars == << pc, control_flow, events, window_size, close_sent, caps_min_image_count,
           swapchain, images, vertex_buffer, viewport, framebuffers,
           recreate_swapchain, previous_frame_end, image_num, suboptimal,
           acquire_future, command_buffer, present, future, resizes_handled,
           frame_recorded, next_id, last_step, recreate_read, ticks_after_exit, devices, physical_device_index,
           queue_family_id >>

deviceVars == << devices, physical_device_index, queue_family_id >>
envVars == << events, window_size, close_sent >>
tickLocals == << image_num, suboptimal, acquire_future, command_buffer, present, future,
                resizes_handled >>
swapVars == << swapchain, images, viewport, framebuffers, next_id, recreate_read >>

(* ------------------- physical device selection ------------------------ *)

DeviceTypes == {"DiscreteGpu", "IntegratedGpu", "VirtualGpu", "Cpu", "Other"}

\* A queue family: whether it supports graphics, and whether the surface
\* reports it can present from it.
QueueFamilies == [graphics : BOOLEAN, present : BOOLEAN]

SeqsUpTo(S, n) == UNION {[1..k -> S] : k \in 0..n}

\* A physical device: its type, whether its supported extensions include
\* khr_swapchain, and its queue families in id order (at most n of them).
PhysicalDevices(n) ==
    [device_type : DeviceTypes,
     khr_swapchain : BOOLEAN,
     queue_families : SeqsUpTo(QueueFamilies, n)]

RECURSIVE TotalQueueFamilies(_)
TotalQueueFamilies(ds) ==
    IF ds = << >> THEN 0
    ELSE Len(Head(ds).queue_families) + TotalQueueFamilies(Tail(ds))

\* The key of min_by_key.
DeviceRank(t) ==
    CASE t = "DiscreteGpu" -> 0
      [] t = "IntegratedGpu" -> 1
      [] t = "VirtualGpu" -> 2
      [] t = "Cpu" -> 3
      [] t = "Other" -> 4

\* p.supported_extensions().is_superset_of(device_extensions), where
\* device_extensions is {khr_swapchain}.
SupportsExtensions(p) == p.khr_swapchain

QueueFamilyOk(q) == q.graphics /\ q.present

\* p.queue_families().find(..): the first queue family with graphics and
\* present support, as its position (0 when there is none).
RECURSIVE FindFrom(_, _)
FindFrom(qs, i) ==
    IF i > Len(qs) THEN 0
    ELSE IF QueueFamilyOk(qs[i]) THEN i
    ELSE FindFrom(qs, i + 1)

FindQueueFamily(p) == FindFrom(p.queue_families, 1)

\* filter + filter_map over the enumeration: the (device, queue family)
\* pairs that reach min_by_key, in enumeration order.
RECURSIVE CandidatesFrom(_, _)
CandidatesFrom(ds, i) ==
    IF i > Len(ds) THEN << >>
    ELSE LET rest == CandidatesFrom(ds, i + 1)
         IN  IF SupportsExtensions(ds[i]) /\ FindQueueFamily(ds[i]) # 0
             THEN << [device |-> i, family |-> FindQueueFamily(ds[i])] >> \o rest
             ELSE rest

Candidates(ds) == CandidatesFrom(ds, 1)

\* The comparison of a min_by_key fold with a bug: a later element replaces
\* the current minimum when its key is equal.
KeepsCurrentLastWins(best, c, ds) ==
    DeviceRank(ds[best.device].device_type) < DeviceRank(ds[c.device].device_type)

\* Iterator::min_by_key keeps the current minimum unless the next element's
\* key is strictly smaller, so the first of several equal minima is returned.
KeepsCurrent(best, c, ds) ==
    DeviceRank(ds[best.device].device_type) <= DeviceRank(ds[c.device].device_type)

RECURSIVE MinFold(_, _, _, _)
MinFold(cs, i, best, ds) ==
    IF i > Len(cs) THEN best
    ELSE MinFold(cs, i + 1, IF KeepsCurrent(best, cs[i], ds) THEN best ELSE cs[i], ds)

\* min_by_key over a non-empty candidate sequence.
MinByKey(cs, ds) == MinFold(cs, 2, cs[1], ds)

\* create_physical_device when a candidate exists.
CreatePhysicalDeviceOk ==
    /\ pc = "create_physical_device"
    /\ Candidates(devices) # << >>
    /\ LET sel == MinByKey(Candidates(devices), devices)
       IN  /\ physical_device_index' = Some(sel.device)
           /\ queue_family_id' = Some(sel.family)
    /\ pc' = "create_logical_device"
    /\ last_step' = "device_selected"
    /\ UNCHANGED << control_flow, envVars, caps_min_image_count, frame_recorded, swapVars,
                    vertex_buffer, recreate_swapchain, previous_frame_end,
                    tickLocals, ticks_after_exit, devices >>

\* create_physical_device when min_by_key returns None: unwrap panics.
CreatePhysicalDeviceNone ==
    /\ pc = "create_physical_device"
    /\ Candidates(devices) = << >>
    /\ pc' = "panicked"
    /\ last_step' = "no_device"
    /\ UNCHANGED << control_flow, envVars, caps_min_image_count, frame_recorded, swapVars,
                    vertex_buffer, recreate_swapchain, previous_frame_end,
                    tickLocals, ticks_after_exit, deviceVars >>

\* The instance reports one more physical device: PhysicalDevice::enumerate
\* yields whatever the machine holds, in the driver's order.
EnumerateDevice ==
    /\ pc = "create_physical_device"
    /\ Len(devices) < MaxDevices
    /\ \E d \in PhysicalDevices(MaxQueueFamilies - TotalQueueFamilies(devices)) :
          devices' = Append(devices, d)
    /\ UNCHANGED << pc, control_flow, envVars, caps_min_image_count, frame_recorded, swapVars,
                    vertex_buffer, recreate_swapchain, previous_frame_end,
                    tickLocals, ticks_after_exit, last_step,
                    physical_device_index, queue_family_id >>

\* The state of a Vulkan value after init() (every field None, the flag
\* false) before create_physical_device has run.
InitDevices ==
    /\ pc = "create_physical_device"
    /\ control_flow = "Poll"
    /\ events = << >>
    /\ window_size \in {<<1, 1>>}
    /\ close_sent = FALSE
    /\ caps_min_image_count = 1
    /\ swapchain = None
    /\ images = None
    /\ vertex_buffer = None
    /\ viewport = None
    /\ framebuffers = None
    /\ recreate_swapchain = FALSE
    /\ previous_frame_end = None
    /\ image_num = None
    /\ suboptimal = FALSE
    /\ acquire_future = None
    /\ command_buffer = None
    /\ present = None
    /\ future = None
    /\ resizes_handled = 0
    /\ frame_recorded = FALSE
    /\ next_id = 1
    /\ last_step = "init"
    /\ recreate_read = None
    /\ ticks_after_exit = 0
    /\ devices = << >>
    /\ physical_device_index = None
    /\ queue_family_id = None

NextDevices == EnumerateDevice \/ CreatePhysicalDeviceOk \/ CreatePhysicalDeviceNone

SpecDevices == InitDevices /\ [][NextDevices]_vars

(* ------------------------ swapchain manager --------------------------- *)

\* A swapchain object as the driver builds it: `requested` is the image
\* count asked for (num_images), `num_images` the count the driver created,
\* which Vulkan allows to be larger.
BuildSwapchain(id, dims, requested, n) ==
    [id |-> id, dimensions |-> dims, requested |-> requested, num_images |-> n]

\* The images returned with a swapchain: all have the swapchain's dimensions.
ImagesOf(sc) == [swapchain |-> sc.id, dimensions |-> sc.dimensions, count |-> sc.num_images]

\* Dimensions the driver can build a swapchain for: a zero extent never is.
CanBuild(dims) == dims[1] > 0 /\ dims[2] > 0

\* window_size_dependent_setup with a bug: the viewport is left as it was.
StaleViewport(imgs) == viewport

\* window_size_dependent_setup, the viewport it stores: origin 0, the
\* dimensions of images[0] converted to f32.
NewViewport(imgs) ==
    Some([origin |-> <<0, 0>>,
          dimensions |-> <<AsF32(imgs.dimensions[1]), AsF32(imgs.dimensions[2])>>])

\* window_size_dependent_setup with a bug: one framebuffer only.
SingleFramebuffer(imgs) ==
    [i \in 1..1 |-> [swapchain |-> imgs.swapchain, image |-> i,
                     dimensions |-> imgs.dimensions]]

\* window_size_dependent_setup, the vector it returns: one framebuffer per
\* image, in image order, each over a view of its image.
NewFramebuffers(imgs) ==
    [i \in 1..imgs.count |-> [swapchain |-> imgs.swapchain, image |-> i,
                              dimensions |-> imgs.dimensions]]

(* ------------------------------ set-up -------------------------------- *)

\* create_swapchain: num_images is the surface's min_image_count, the
\* dimensions are the window's inner size; build().unwrap().
CreateSwapchain ==
    /\ pc = "create_swapchain"
    /\ CanBuild(window_size)
    /\ \E n \in caps_min_image_count..MaxImages :
         LET sc == BuildSwapchain(next_id, window_size, caps_min_image_count, n)
         IN  /\ swapchain' = Some(sc)
             /\ images' = Some(ImagesOf(sc))
    /\ next_id' = next_id + 1
    /\ pc' = "create_vertex_buffer"
    /\ last_step' = "swapchain_created"
    /\ UNCHANGED << control_flow, envVars, caps_min_image_count, frame_recorded, vertex_buffer,
                    viewport, framebuffers, recreate_swapchain, previous_frame_end,
                    tickLocals, recreate_read, ticks_after_exit, deviceVars >>

\* An unwrap of the set-up sequence fails (here: the swapchain cannot be built).
SetupPanic ==
    /\ pc = "create_swapchain"
    /\ pc' = "panicked"
    /\ last_step' = "setup_failed"
    /\ UNCHANGED << control_flow, envVars, caps_min_image_count, frame_recorded, swapVars,
                    vertex_buffer, recreate_swapchain, previous_frame_end,
                    tickLocals, ticks_after_exit, deviceVars >>

\* create_vertex_buffer: the three vertices, positions in tenths.
\* (create_shaders, create_render_pass and create_pipeline follow; they build
\* immutable objects that no later step replaces.)
CreateVertexBuffer ==
    /\ pc = "create_vertex_buffer"
    /\ vertex_buffer' = Some(<< <<5, 5>>, <<-5, 5>>, <<0, -5>> >>)
    /\ pc' = "create_viewport"
    /\ last_step' = "vertex_buffer_created"
    /\ UNCHANGED << control_flow, envVars, caps_min_image_count, frame_recorded, swapVars,
                    recreate_swapchain, previous_frame_end, tickLocals,
                    ticks_after_exit, deviceVars >>

\* create_viewport: a placeholder of dimensions [0.0, 0.0].
CreateViewport ==
    /\ pc = "create_viewport"
    /\ viewport' = Some([origin |-> <<0, 0>>, dimensions |-> <<0, 0>>])
    /\ pc' = "create_framebuffers"
    /\ last_step' = "viewport_created"
    /\ UNCHANGED << control_flow, envVars, caps_min_image_count, frame_recorded, swapchain, images,
                    framebuffers, next_id, recreate_read, vertex_buffer,
                    recreate_swapchain, previous_frame_end, tickLocals,
                    ticks_after_exit, deviceVars >>

\* create_framebuffers with a bug: the framebuffers are built, the viewport
\* is left as create_viewport wrote it.
CreateFramebuffersKeepsViewport ==
    /\ pc = "create_framebuffers"
    /\ framebuffers' = Some(NewFramebuffers(images.v))
    /\ pc' = "start_loop"
    /\ last_step' = "framebuffers_created"
    /\ UNCHANGED << control_flow, envVars, caps_min_image_count, frame_recorded,
                    swapchain, images, viewport, next_id, recreate_read,
                    vertex_buffer, recreate_swapchain, previous_frame_end,
                    tickLocals, ticks_after_exit, deviceVars >>

\* create_framebuffers: window_size_dependent_setup on self.images.
CreateFramebuffers ==
    /\ pc = "create_framebuffers"
    /\ viewport' = NewViewport(images.v)
    /\ framebuffers' = Some(NewFramebuffers(images.v))
    /\ pc' = "start_loop"
    /\ last_step' = "framebuffers_created"
    /\ UNCHANGED << control_flow, envVars, caps_min_image_count, frame_recorded, swapchain, images,
                    next_id, recreate_read, vertex_buffer, recreate_swapchain,
                    previous_frame_end, tickLocals, ticks_after_exit, deviceVars >>

\* sync::now(device).boxed(): a future that is already complete.
NowFuture == [kind |-> "now"]

\* previous_frame_end = Some(sync::now(..)); event_loop.run(..) starts.
StartLoop ==
    /\ pc = "start_loop"
    /\ previous_frame_end' = Some(NowFuture)
    /\ pc' = "dispatch"
    /\ last_step' = "loop_started"
    /\ UNCHANGED << control_flow, envVars, caps_min_image_count, frame_recorded, swapVars,
                    vertex_buffer, recreate_swapchain, tickLocals,
                    ticks_after_exit, deviceVars >>

(* ----------------------------- environment ---------------------------- *)

Running == pc \notin {"exited", "panicked"}

\* The user or the window manager resizes the window; the platform queues a
\* Resized event for the loop.
WindowResized ==
    /\ Running
    /\ Len(events) < MaxEvents
    /\ \E s \in Sizes \ {window_size} : window_size' = s
    /\ events' = Append(events, "Resized")
    /\ UNCHANGED << pc, control_flow, close_sent, caps_min_image_count, frame_recorded, swapVars,
                    vertex_buffer, recreate_swapchain, previous_frame_end,
                    tickLocals, last_step, ticks_after_exit, deviceVars >>

\* The user asks to close the window; the platform queues CloseRequested.
UserClose ==
    /\ Running
    /\ ~close_sent
    /\ Len(events) < MaxEvents
    /\ close_sent' = TRUE
    /\ events' = Append(events, "CloseRequested")
    /\ UNCHANGED << pc, control_flow, window_size, caps_min_image_count, frame_recorded, swapVars,
                    vertex_buffer, recreate_swapchain, previous_frame_end,
                    tickLocals, last_step, ticks_after_exit, deviceVars >>

(* ----------------------------- event loop ----------------------------- *)

\* The handler returns: its locals are dropped.
DropLocals ==
    /\ image_num' = None
    /\ suboptimal' = FALSE
    /\ acquire_future' = None
    /\ command_buffer' = None
    /\ present' = None
    /\ future' = None
    /\ resizes_handled' = 0

\* Where the loop goes when the RedrawEventsCleared handler returns: the
\* iteration is over, and the loop stops if control_flow is Exit.
AfterRedraw == IF control_flow = "Exit" THEN "exited" ELSE "dispatch"

\* The CloseRequested arm with a bug: control_flow is left alone.
CloseIgnored == control_flow

\* The CloseRequested arm: *control_flow = ControlFlow::Exit.
CloseControlFlow == "Exit"

\* The closure is called with WindowEvent::CloseRequested.
HandleCloseRequested ==
    /\ pc = "dispatch"
    /\ events # << >>
    /\ Head(events) = "CloseRequested"
    /\ events' = Tail(events)
    /\ control_flow' = CloseControlFlow
    /\ last_step' = "close_requested"
    /\ UNCHANGED << pc, window_size, close_sent, caps_min_image_count, frame_recorded, swapVars,
                    vertex_buffer, recreate_swapchain, previous_frame_end,
                    tickLocals, ticks_after_exit, deviceVars >>

\* One more Resized event handled; the count stops at "several".
CountResize(n) == IF n < 2 THEN n + 1 ELSE n

\* The Resized arm with a bug: the flag is not set.
HandleResizedNoFlag ==
    /\ pc = "dispatch"
    /\ events # << >>
    /\ Head(events) = "Resized"
    /\ events' = Tail(events)
    /\ resizes_handled' = CountResize(resizes_handled)
    /\ last_step' = "resized"
    /\ UNCHANGED << pc, control_flow, window_size, close_sent, caps_min_image_count, frame_recorded,
                    swapVars, vertex_buffer, recreate_swapchain, previous_frame_end,
                    image_num, suboptimal, acquire_future, command_buffer, present,
                    future, ticks_after_exit, deviceVars >>

\* The Resized arm with a bug: it recreates the swapchain at the event when
\* the new size can be built.
HandleResizedRecreates ==
    /\ pc = "dispatch"
    /\ events # << >>
    /\ Head(events) = "Resized"
    /\ events' = Tail(events)
    /\ resizes_handled' = CountResize(resizes_handled)
    /\ last_step' = "resized"
    /\ IF CanBuild(window_size) /\ next_id <= MaxRecreations + 1
       THEN LET sc == BuildSwapchain(next_id, window_size, swapchain.v.num_images,
                                     swapchain.v.num_images)
            IN  /\ swapchain' = Some(sc)
                /\ framebuffers' = Some(NewFramebuffers(ImagesOf(sc)))
                /\ viewport' = NewViewport(ImagesOf(sc))
                /\ next_id' = next_id + 1
                /\ recreate_read' = Some(window_size)
                /\ recreate_swapchain' = FALSE
       ELSE /\ recreate_swapchain' = TRUE
            /\ UNCHANGED << swapchain, framebuffers, viewport, next_id, recreate_read >>
    /\ UNCHANGED << pc, control_flow, window_size, close_sent, caps_min_image_count, frame_recorded,
                    images, vertex_buffer, previous_frame_end, image_num,
                    suboptimal, acquire_future, command_buffer, present, future,
                    ticks_after_exit, deviceVars >>

\* The closure is called with WindowEvent::Resized(_): the flag is set, the
\* size carried by the event is not looked at.
HandleResized ==
    /\ pc = "dispatch"
    /\ events # << >>
    /\ Head(events) = "Resized"
    /\ events' = Tail(events)
    /\ resizes_handled' = CountResize(resizes_handled)
    /\ recreate_swapchain' = TRUE
    /\ last_step' = "resized"
    /\ UNCHANGED << pc, control_flow, window_size, close_sent, caps_min_image_count, frame_recorded,
                    swapVars, vertex_buffer, previous_frame_end, image_num,
                    suboptimal, acquire_future, command_buffer, present, future,
                    ticks_after_exit, deviceVars >>

\* The loop stops once control_flow is Exit (LoopDestroyed falls in the
\* closure's `_ => ()` arm).  A platform may do so before or after it has
\* delivered the rest of the iteration's events.
LoopDestroyed ==
    /\ pc = "dispatch"
    /\ control_flow = "Exit"
    /\ pc' = "exited"
    /\ last_step' = "loop_destroyed"
    /\ UNCHANGED << control_flow, envVars, caps_min_image_count, frame_recorded, swapVars,
                    vertex_buffer, recreate_swapchain, previous_frame_end,
                    tickLocals, ticks_after_exit, deviceVars >>

(* ------------------- the RedrawEventsCleared handler ------------------ *)

\* The queued window events have been delivered and the closure is called
\* with RedrawEventsCleared; its first statement is
\* previous_frame_end.as_mut().unwrap().cleanup_finished().
CleanupFinished ==
    /\ pc = "dispatch"
    /\ events = << >>
    /\ pc' = IF previous_frame_end = None THEN "panicked" ELSE "check_resize"
    /\ ticks_after_exit' = ticks_after_exit + (IF control_flow = "Exit" THEN 1 ELSE 0)
    /\ last_step' = "cleanup_finished"
    /\ UNCHANGED << control_flow, envVars, caps_min_image_count, frame_recorded, swapVars,
                    vertex_buffer, recreate_swapchain, previous_frame_end,
                    tickLocals, deviceVars >>

\* if self.recreate_swapchain { .. } with the flag clear.
NoRecreate ==
    /\ pc = "check_resize"
    /\ ~recreate_swapchain
    /\ pc' = "acquire"
    /\ last_step' = "no_recreate"
    /\ UNCHANGED << control_flow, envVars, caps_min_image_count, frame_recorded, swapVars,
                    vertex_buffer, recreate_swapchain, previous_frame_end,
                    tickLocals, ticks_after_exit, deviceVars >>

\* recreate_swapchain with a bug: the new swapchain is stored and the
\* viewport set, the framebuffers of the old swapchain are kept.
RecreateOkKeepsFramebuffers ==
    /\ pc = "check_resize"
    /\ recreate_swapchain
    /\ CanBuild(window_size)
    /\ next_id <= MaxRecreations + 1
    /\ \E n \in swapchain.v.num_images..MaxImages :
         LET sc == BuildSwapchain(next_id, window_size, swapchain.v.num_images, n)
         IN  /\ swapchain' = Some(sc)
             /\ viewport' = NewViewport(ImagesOf(sc))
    /\ next_id' = next_id + 1
    /\ recreate_swapchain' = FALSE
    /\ recreate_read' = Some(window_size)
    /\ pc' = "acquire"
    /\ last_step' = "recreate_ok"
    /\ UNCHANGED << control_flow, envVars, caps_min_image_count, frame_recorded, images,
                    framebuffers, vertex_buffer, previous_frame_end, tickLocals,
                    ticks_after_exit, deviceVars >>

\* recreate_swapchain with a bug: the swapchain is rebuilt with the size of
\* the images it already holds, not with the window's size at the call.
RecreateOkStaleSize ==
    /\ pc = "check_resize"
    /\ recreate_swapchain
    /\ CanBuild(window_size)
    /\ next_id <= MaxRecreations + 1
    /\ \E n \in swapchain.v.num_images..MaxImages :
         LET sc == BuildSwapchain(next_id, images.v.dimensions,
                                  swapchain.v.num_images, n)
         IN  /\ swapchain' = Some(sc)
             /\ framebuffers' = Some(NewFramebuffers(ImagesOf(sc)))
             /\ viewport' = NewViewport(ImagesOf(sc))
    /\ next_id' = next_id + 1
    /\ recreate_swapchain' = FALSE
    /\ recreate_read' = Some(images.v.dimensions)
    /\ pc' = "acquire"
    /\ last_step' = "recreate_ok"
    /\ UNCHANGED << control_flow, envVars, caps_min_image_count, frame_recorded, images,
                    vertex_buffer, previous_frame_end, tickLocals,
                    ticks_after_exit, deviceVars >>

\* recreate_swapchain, build() returns Ok: the swapchain is rebuilt from the
\* old one (same image count request: the number of images it holds) with
\* the window's inner size; swapchain, framebuffers and viewport are
\* replaced and the flag is cleared.  self.images is not assigned.
RecreateOk ==
    /\ pc = "check_resize"
    /\ recreate_swapchain
    /\ CanBuild(window_size)
    /\ next_id <= MaxRecreations + 1
    /\ \E n \in swapchain.v.num_images..MaxImages :
         LET sc == BuildSwapchain(next_id, window_size, swapchain.v.num_images, n)
         IN  /\ swapchain' = Some(sc)
             /\ framebuffers' = Some(NewFramebuffers(ImagesOf(sc)))
             /\ viewport' = NewViewport(ImagesOf(sc))
    /\ next_id' = next_id + 1
    /\ recreate_swapchain' = FALSE
    /\ recreate_read' = Some(window_size)
    /\ pc' = "acquire"
    /\ last_step' = "recreate_ok"
    /\ UNCHANGED << control_flow, envVars, caps_min_image_count, frame_recorded, images,
                    vertex_buffer, previous_frame_end, tickLocals,
                    ticks_after_exit, deviceVars >>

\* recreate_swapchain with a bug: the viewport is set from the dimensions
\* read before build() is matched, so an unsupported size replaces it alone.
RecreateUnsupportedPartial ==
    /\ pc = "check_resize"
    /\ recreate_swapchain
    /\ viewport' = Some([origin |-> <<0, 0>>,
                         dimensions |-> <<AsF32(window_size[1]), AsF32(window_size[2])>>])
    /\ pc' = "acquire"
    /\ last_step' = "recreate_unsupported"
    /\ UNCHANGED << control_flow, envVars, caps_min_image_count, frame_recorded, swapchain, images,
                    framebuffers, next_id, recreate_read, vertex_buffer,
                    recreate_swapchain, previous_frame_end, tickLocals,
                    ticks_after_exit, deviceVars >>

\* recreate_swapchain with a bug: the flag is cleared before build() is
\* matched, so an unsupported size drops the request.
RecreateUnsupportedClearsFlag ==
    /\ pc = "check_resize"
    /\ recreate_swapchain
    /\ recreate_swapchain' = FALSE
    /\ pc' = "acquire"
    /\ last_step' = "recreate_unsupported"
    /\ UNCHANGED << control_flow, envVars, caps_min_image_count, frame_recorded, swapVars,
                    vertex_buffer, previous_frame_end, tickLocals,
                    ticks_after_exit, deviceVars >>

\* recreate_swapchain, build() returns Err(UnsupportedDimensions): return.
RecreateUnsupported ==
    /\ pc = "check_resize"
    /\ recreate_swapchain
    /\ pc' = "acquire"
    /\ last_step' = "recreate_unsupported"
    /\ UNCHANGED << control_flow, envVars, caps_min_image_count, frame_recorded, swapVars,
                    vertex_buffer, recreate_swapchain, previous_frame_end,
                    tickLocals, ticks_after_exit, deviceVars >>

\* recreate_swapchain, build() returns another error: panic (the unwinding
\* drops the handler's locals).
RecreatePanic ==
    /\ pc = "check_resize"
    /\ recreate_swapchain
    /\ pc' = "panicked"
    /\ DropLocals
    /\ last_step' = "recreate_failed"
    /\ UNCHANGED << control_flow, envVars, caps_min_image_count, frame_recorded, swapVars,
                    vertex_buffer, recreate_swapchain, previous_frame_end,
                    ticks_after_exit, deviceVars >>

\* The Ok arm with a bug: a suboptimal image is treated like out-of-date,
\* the flag is set and the handler returns.
AcquireOkSuboptimalReturns ==
    /\ pc = "acquire"
    /\ resizes_handled' = 0
    /\ \E i \in 1..swapchain.v.num_images, sub \in BOOLEAN :
         IF sub
         THEN /\ recreate_swapchain' = TRUE
              /\ pc' = (IF control_flow = "Exit" THEN "exited" ELSE "dispatch")
              /\ last_step' = "acquire_suboptimal"
              /\ UNCHANGED << image_num, suboptimal, acquire_future >>
         ELSE /\ image_num' = Some(i)
              /\ suboptimal' = FALSE
              /\ acquire_future' = Some([swapchain |-> swapchain.v.id, image |-> i])
              /\ recreate_swapchain' = recreate_swapchain
              /\ pc' = "record"
              /\ last_step' = "acquire_ok"
    /\ UNCHANGED << control_flow, envVars, caps_min_image_count, frame_recorded, swapVars,
                    vertex_buffer, previous_frame_end, command_buffer, present,
                    future, ticks_after_exit, deviceVars >>

\* The Ok arm with a bug: the flag is assigned from suboptimal, so a request
\* still pending after an unsupported recreation is dropped.
AcquireOkClearsFlag ==
    /\ pc = "acquire"
    /\ \E i \in 1..swapchain.v.num_images, sub \in BOOLEAN :
         /\ image_num' = Some(i)
         /\ suboptimal' = sub
         /\ acquire_future' = Some([swapchain |-> swapchain.v.id, image |-> i])
         /\ recreate_swapchain' = sub
         /\ last_step' = IF sub THEN "acquire_suboptimal" ELSE "acquire_ok"
    /\ pc' = "record"
    /\ resizes_handled' = 0
    /\ UNCHANGED << control_flow, envVars, caps_min_image_count, frame_recorded,
                    swapVars, vertex_buffer, previous_frame_end, command_buffer,
                    present, future, ticks_after_exit, deviceVars >>

\* acquire_next_image returns Ok((image_num, suboptimal, acquire_future));
\* if suboptimal { self.recreate_swapchain = true }.
AcquireOk ==
    /\ pc = "acquire"
    /\ \E i \in 1..swapchain.v.num_images, sub \in BOOLEAN :
         /\ image_num' = Some(i)
         /\ suboptimal' = sub
         /\ acquire_future' = Some([swapchain |-> swapchain.v.id, image |-> i])
         /\ recreate_swapchain' = (recreate_swapchain \/ sub)
         /\ last_step' = IF sub THEN "acquire_suboptimal" ELSE "acquire_ok"
    /\ pc' = "record"
    /\ resizes_handled' = 0
    /\ UNCHANGED << control_flow, envVars, caps_min_image_count, frame_recorded, swapVars,
                    vertex_buffer, previous_frame_end, command_buffer, present,
                    future, ticks_after_exit, deviceVars >>

\* The OutOfDate arm with a bug: it returns without setting the flag.
AcquireOutOfDateNoFlag ==
    /\ pc = "acquire"
    /\ pc' = (IF control_flow = "Exit" THEN "exited" ELSE "dispatch")
    /\ last_step' = "acquire_out_of_date"
    /\ UNCHANGED << control_flow, envVars, caps_min_image_count, frame_recorded, swapVars,
                    vertex_buffer, recreate_swapchain, previous_frame_end,
                    tickLocals, ticks_after_exit, deviceVars >>

\* acquire_next_image returns Err(OutOfDate): set the flag and return.
AcquireOutOfDate ==
    /\ pc = "acquire"
    /\ recreate_swapchain' = TRUE
    /\ pc' = AfterRedraw
    /\ last_step' = "acquire_out_of_date"
    /\ DropLocals
    /\ UNCHANGED << control_flow, envVars, caps_min_image_count, frame_recorded, swapVars,
                    vertex_buffer, previous_frame_end, ticks_after_exit, deviceVars >>

\* acquire_next_image returns another error: panic.
AcquirePanic ==
    /\ pc = "acquire"
    /\ pc' = "panicked"
    /\ DropLocals
    /\ last_step' = "acquire_failed"
    /\ UNCHANGED << control_flow, envVars, caps_min_image_count, frame_recorded, swapVars,
                    vertex_buffer, recreate_swapchain, previous_frame_end,
                    ticks_after_exit, deviceVars >>

\* The command buffer with a bug: the arguments of draw are swapped, one
\* vertex is drawn vertex_buffer.len() times.
RecordedCommandsSwapped ==
    [framebuffer |-> framebuffers.v[image_num.v],
     clear |-> <<1, 1, 1, 10>>,
     viewport |-> viewport.v,
     vertex_count |-> 1,
     instance_count |-> Len(vertex_buffer.v),
     first_vertex |-> 0,
     first_instance |-> 0]

\* The command buffer the tick builds: begin_render_pass on
\* framebuffers[image_num] with the clear colour (in tenths), set_viewport,
\* bind, draw(vertex_buffer.len(), 1, 0, 0), end_render_pass.
RecordedCommands ==
    [framebuffer |-> framebuffers.v[image_num.v],
     clear |-> <<1, 1, 1, 10>>,
     viewport |-> viewport.v,
     vertex_count |-> Len(vertex_buffer.v),
     instance_count |-> 1,
     first_vertex |-> 0,
     first_instance |-> 0]

\* Record the command buffer; indexing framebuffers out of range panics.
Record ==
    /\ pc = "record"
    /\ IF image_num.v \in 1..Len(framebuffers.v)
       THEN /\ command_buffer' = Some(RecordedCommands)
            /\ pc' = "submit"
            /\ last_step' = "recorded"
       ELSE /\ command_buffer' = None
            /\ pc' = "panicked"
            /\ last_step' = "index_out_of_range"
    /\ UNCHANGED << control_flow, envVars, caps_min_image_count, frame_recorded, swapVars,
                    vertex_buffer, recreate_swapchain, previous_frame_end,
                    image_num, suboptimal, acquire_future, present, future,
                    resizes_handled, ticks_after_exit, deviceVars >>

\* The submission with a bug: the frame's work is chained onto the previous
\* frame's future alone, the acquire future is not joined.
PresentRequestNoJoin ==
    [after |-> << previous_frame_end.v >>,
     commands |-> command_buffer.v,
     swapchain |-> swapchain.v.id,
     image |-> image_num.v]

\* What the tick hands to the queue: the command buffer, executed after the
\* previous frame's future joined with the acquire future, then the present
\* of image_num on self.swapchain.
PresentRequest ==
    [after |-> << previous_frame_end.v, acquire_future.v >>,
     commands |-> command_buffer.v,
     swapchain |-> swapchain.v.id,
     image |-> image_num.v]

\* The future then_signal_fence_and_flush returns on success.
FrameFuture == [kind |-> "fence"]

\* What then_signal_fence_and_flush can return.
FlushResults ==
    {[tag |-> "Ok", v |-> FrameFuture],
     [tag |-> "Err", e |-> "OutOfDate"],
     [tag |-> "Err", e |-> "Other"]}

\* let future = previous_frame_end.take().unwrap().join(acquire_future)
\*     .then_execute(..).unwrap().then_swapchain_present(..)
\*     .then_signal_fence_and_flush();
Submit ==
    /\ pc = "submit"
    /\ previous_frame_end # None
    /\ present' = Some(PresentRequest)
    /\ previous_frame_end' = None
    /\ \E r \in FlushResults : future' = r
    /\ pc' = "match_future"
    /\ last_step' = "submitted"
    /\ UNCHANGED << control_flow, envVars, caps_min_image_count, frame_recorded, swapVars,
                    vertex_buffer, recreate_swapchain, image_num, suboptimal,
                    acquire_future, command_buffer, resizes_handled,
                    ticks_after_exit, deviceVars >>

\* take().unwrap() finds no future, or then_execute(..).unwrap() fails.
SubmitPanic ==
    /\ pc = "submit"
    /\ previous_frame_end' = None
    /\ pc' = "panicked"
    /\ DropLocals
    /\ last_step' = "submit_failed"
    /\ UNCHANGED << control_flow, envVars, caps_min_image_count, frame_recorded, swapVars,
                    vertex_buffer, recreate_swapchain, ticks_after_exit, deviceVars >>

\* The Ok arm with a bug: the future of the frame is dropped, the tracker
\* stays empty.
FlushOkNoStore ==
    /\ pc = "match_future"
    /\ frame_recorded' = TRUE
    /\ future.tag = "Ok"
    /\ pc' = AfterRedraw
    /\ last_step' = "flush_ok"
    /\ DropLocals
    /\ UNCHANGED << control_flow, envVars, caps_min_image_count, swapVars,
                    vertex_buffer, recreate_swapchain, previous_frame_end,
                    ticks_after_exit, deviceVars >>

\* Ok(future): previous_frame_end = Some(future.boxed()).
FlushOk ==
    /\ pc = "match_future"
    /\ frame_recorded' = TRUE
    /\ future.tag = "Ok"
    /\ previous_frame_end' = Some(future.v)
    /\ pc' = AfterRedraw
    /\ last_step' = "flush_ok"
    /\ DropLocals
    /\ UNCHANGED << control_flow, envVars, caps_min_image_count, swapVars,
                    vertex_buffer, recreate_swapchain, ticks_after_exit, deviceVars >>

\* The OutOfDate arm with a bug: the tracker, emptied by take(), is not
\* given a new future.
FlushOutOfDateNoReset ==
    /\ pc = "match_future"
    /\ frame_recorded' = TRUE
    /\ future = [tag |-> "Err", e |-> "OutOfDate"]
    /\ recreate_swapchain' = TRUE
    /\ pc' = (IF control_flow = "Exit" THEN "exited" ELSE "dispatch")
    /\ last_step' = "flush_out_of_date"
    /\ image_num' = None /\ suboptimal' = FALSE /\ acquire_future' = None
    /\ command_buffer' = None /\ present' = None /\ future' = None
    /\ resizes_handled' = 0
    /\ UNCHANGED << control_flow, envVars, caps_min_image_count, swapVars,
                    vertex_buffer, previous_frame_end, ticks_after_exit, deviceVars >>

\* Err(FlushError::OutOfDate): set the flag, reset the tracker.
FlushOutOfDate ==
    /\ pc = "match_future"
    /\ frame_recorded' = TRUE
    /\ future = [tag |-> "Err", e |-> "OutOfDate"]
    /\ recreate_swapchain' = TRUE
    /\ previous_frame_end' = Some(NowFuture)
    /\ pc' = AfterRedraw
    /\ last_step' = "flush_out_of_date"
    /\ DropLocals
    /\ UNCHANGED << control_flow, envVars, caps_min_image_count, swapVars,
                    vertex_buffer, ticks_after_exit, deviceVars >>

\* The catch-all arm with a bug: it panics, as the acquire arm does.
FlushOtherErrorFatal ==
    /\ pc = "match_future"
    /\ future = [tag |-> "Err", e |-> "Other"]
    /\ pc' = "panicked"
    /\ last_step' = "flush_other_error"
    /\ UNCHANGED << control_flow, envVars, caps_min_image_count, frame_recorded, swapVars,
                    vertex_buffer, recreate_swapchain, previous_frame_end,
                    tickLocals, ticks_after_exit, deviceVars >>

\* Err(e): print, reset the tracker.
FlushOtherError ==
    /\ pc = "match_future"
    /\ frame_recorded' = TRUE
    /\ future = [tag |-> "Err", e |-> "Other"]
    /\ previous_frame_end' = Some(NowFuture)
    /\ pc' = AfterRedraw
    /\ last_step' = "flush_other_error"
    /\ DropLocals
    /\ UNCHANGED << control_flow, envVars, caps_min_image_count, swapVars,
                    vertex_buffer, recreate_swapchain, ticks_after_exit, deviceVars >>

(* --------------------------- specification ---------------------------- *)

\* The state when create_swapchain is about to run: init() has set every
\* field to None and the flag to false, the window exists and a device has
\* been selected.
Init ==
    /\ pc = "create_swapchain"
    /\ control_flow = "Poll"
    /\ events = << >>
    /\ window_size \in Sizes
    /\ close_sent = FALSE
    /\ caps_min_image_count \in 1..MaxImages
    /\ swapchain = None
    /\ images = None
    /\ vertex_buffer = None
    /\ viewport = None
    /\ framebuffers = None
    /\ recreate_swapchain = FALSE
    /\ previous_frame_end = None
    /\ image_num = None
    /\ suboptimal = FALSE
    /\ acquire_future = None
    /\ command_buffer = None
    /\ present = None
    /\ future = None
    /\ resizes_handled = 0
    /\ frame_recorded = FALSE
    /\ next_id = 1
    /\ last_step = "init"
    /\ recreate_read = None
    /\ ticks_after_exit = 0
    /\ devices = << [device_type |-> "DiscreteGpu", khr_swapchain |-> TRUE,
                     queue_families |-> << [graphics |-> TRUE, present |-> TRUE] >>] >>
    /\ physical_device_index = Some(1)
    /\ queue_family_id = Some(1)

Setup ==
    \/ CreateSwapchain
    \/ SetupPanic
    \/ CreateVertexBuffer
    \/ CreateViewport
    \/ CreateFramebuffers
    \/ StartLoop

Environment == WindowResized \/ UserClose

Handlers ==
    \/ HandleCloseRequested
    \/ HandleResized
    \/ LoopDestroyed
    \/ CleanupFinished
    \/ NoRecreate
    \/ RecreateOk
    \/ RecreateUnsupported
    \/ RecreatePanic
    \/ AcquireOk
    \/ AcquireOutOfDate
    \/ AcquirePanic
    \/ Record
    \/ Submit
    \/ FlushOk
    \/ FlushOutOfDate
    \/ FlushOtherError
    \/ SubmitPanic

Program == Setup \/ Handlers

Next == Program \/ Environment

Spec == Init /\ [][Next]_vars

\* The program is scheduled whenever it can take a step: the set-up runs to
\* its end and the event loop keeps calling the closure.
FairSpec == Spec /\ WF_vars(Program)

\* As FairSpec, and build() does not report unsupported dimensions for
\* ever: a recreation that can succeed again and again does succeed.
LiveSpec == FairSpec /\ SF_vars(RecreateOk)

(* ------------------------------ claims -------------------------------- *)

InLoop == pc \in {"dispatch", "check_resize", "acquire", "record", "submit", "match_future"}

\* C1: every frame recorded after a successful recreation uses a viewport
\* and framebuffers whose dimensions are the window size that (latest)
\* recreation read, never the dimensions from before it.
C1_FrameUsesRecreatedDimensions ==
    (command_buffer # None /\ recreate_read # None) =>
        /\ command_buffer.v.viewport.dimensions = recreate_read.v
        /\ command_buffer.v.viewport.origin = <<0, 0>>
        /\ command_buffer.v.framebuffer.dimensions = recreate_read.v
        /\ \A i \in DOMAIN framebuffers.v :
               framebuffers.v[i].dimensions = recreate_read.v

\* A frame is recorded after a recreation that changed the dimensions the
\* swapchain was first created with, while the window has moved on again.
C1_Witness ==
    /\ command_buffer # None
    /\ recreate_read # None
    /\ recreate_read.v # images.v.dimensions
    /\ window_size # recreate_read.v

\* C2: a recreate_swapchain call that ends in UnsupportedDimensions leaves
\* swapchain, framebuffers and viewport exactly as they were and does not
\* end the loop: the tick goes on to acquire.
C2_UnsupportedLeavesStateUntouched ==
    [][(pc = "check_resize" /\ last_step' = "recreate_unsupported") =>
          /\ swapchain' = swapchain
          /\ framebuffers' = framebuffers
          /\ viewport' = viewport
          /\ images' = images
          /\ control_flow' = control_flow
          /\ pc' = "acquire"]_vars

\* An unsupported recreation has just returned, with the window at another
\* size than the swapchain that was kept.
C2_Witness ==
    /\ last_step = "recreate_unsupported"
    /\ pc = "acquire"
    /\ swapchain.v.dimensions # window_size
    /\ control_flow = "Poll"

\* C3, as claimed: once a close request has been handled no further frame
\* is acquired, recorded, submitted or presented.
C3_NoFrameAfterClose ==
    control_flow = "Exit" =>
        /\ pc \notin {"acquire", "record", "submit", "match_future"}
        /\ present = None

\* C3, amended: the close handler sets control_flow to Exit, nothing sets
\* it back, and the loop ends no later than the end of the iteration the
\* request was handled in: at most one redraw tick runs after it, and the
\* loop never returns to dispatching after that tick.
C3_CloseEndsLoopWithinIteration ==
    /\ (last_step = "close_requested" => control_flow = "Exit")
    /\ (close_sent /\ control_flow = "Poll" => "CloseRequested" \in {events[i] : i \in DOMAIN events})
    /\ ticks_after_exit <= 1
    /\ (ticks_after_exit = 1 => control_flow = "Exit" /\ pc # "dispatch")
    /\ (pc = "exited" => control_flow = "Exit")

\* The loop has ended after a close request, having run one last redraw
\* tick that presented a frame.
C3_Witness ==
    /\ pc = "exited"
    /\ ticks_after_exit = 1
    /\ last_step = "flush_ok"

Eligible(d) ==
    /\ d.khr_swapchain
    /\ \E k \in DOMAIN d.queue_families :
          d.queue_families[k].graphics /\ d.queue_families[k].present

RankClaimed(d) ==
    [DiscreteGpu |-> 0, IntegratedGpu |-> 1, VirtualGpu |-> 2, Cpu |-> 3,
     Other |-> 4][d.device_type]

\* C4: create_physical_device selects, among the devices that support the
\* extensions and have a graphics+present queue family, the one of minimum
\* rank, the first enumerated among equals (so the choice is a function of
\* the list), and never another type when a discrete GPU qualifies.
C4_SelectsFirstMinimumRank ==
    last_step = "device_selected" =>
        LET i == physical_device_index.v
            E == {j \in 1..Len(devices) : Eligible(devices[j])}
        IN  /\ i \in E
            /\ \A j \in E :
                  \/ RankClaimed(devices[i]) < RankClaimed(devices[j])
                  \/ RankClaimed(devices[i]) = RankClaimed(devices[j]) /\ i <= j
            /\ (\E j \in E : devices[j].device_type = "DiscreteGpu")
                   => devices[i].device_type = "DiscreteGpu"
            /\ queue_family_id.v \in DOMAIN devices[i].queue_families
            /\ devices[i].queue_families[queue_family_id.v].graphics
            /\ devices[i].queue_families[queue_family_id.v].present

\* Two qualifying devices of the same rank were enumerated and the first
\* was selected.
C4_Witness ==
    /\ last_step = "device_selected"
    /\ Len(devices) = 2
    /\ Eligible(devices[1]) /\ Eligible(devices[2])
    /\ devices[1].device_type = devices[2].device_type
    /\ physical_device_index = Some(1)

\* C5, as claimed: the swapchain always holds exactly the surface-reported
\* minimum number of images, and one framebuffer is stored per image.
C5_ImageCountIsSurfaceMinimum ==
    swapchain # None =>
        /\ swapchain.v.num_images = caps_min_image_count
        /\ (framebuffers # None => Len(framebuffers.v) = swapchain.v.num_images)

\* C5, amended: the count requested at creation is the surface-reported
\* minimum and each recreation requests the count the old swapchain held;
\* the swapchain holds at least the minimum; once framebuffers are stored
\* there is exactly one per image of the current swapchain, so the acquired
\* index always indexes an existing framebuffer.
C5_OneFramebufferPerImage ==
    /\ swapchain # None =>
          /\ swapchain.v.num_images >= swapchain.v.requested
          /\ swapchain.v.requested >= caps_min_image_count
          /\ (swapchain.v.id = 1 => swapchain.v.requested = caps_min_image_count)
    /\ framebuffers # None =>
          /\ Len(framebuffers.v) = swapchain.v.num_images
          /\ \A i \in DOMAIN framebuffers.v :
                 /\ framebuffers.v[i].swapchain = swapchain.v.id
                 /\ framebuffers.v[i].image = i
    /\ image_num # None => image_num.v \in DOMAIN framebuffers.v
    /\ last_step # "index_out_of_range"

\* After a recreation, a frame is recorded on the last framebuffer of a
\* swapchain that holds more than one image.
C5_Witness ==
    /\ command_buffer # None
    /\ swapchain.v.id > 1
    /\ image_num.v > 1
    /\ image_num.v = swapchain.v.num_images

\* C6, as claimed: in the frame loop the stored framebuffers always have
\* the live window size.
C6_FramebuffersMatchWindow ==
    InLoop => \A i \in DOMAIN framebuffers.v :
                  framebuffers.v[i].dimensions = window_size

\* C6, amended: in the frame loop the stored framebuffers have the
\* dimensions of the current swapchain (the window size its creation or
\* recreation read); whenever these differ from the live window size a
\* Resized event is still queued or needs_recreate is set.
C6_FramebuffersMatchSwapchain ==
    InLoop =>
        /\ \A i \in DOMAIN framebuffers.v :
               framebuffers.v[i].dimensions = swapchain.v.dimensions
        /\ (recreate_read # None => swapchain.v.dimensions = recreate_read.v)
        /\ (swapchain.v.dimensions # window_size =>
               \/ recreate_swapchain
               \/ "Resized" \in {events[i] : i \in DOMAIN events})

\* The framebuffers differ from the window size, the Resized event has been
\* handled and the recreation is still to come.
C6_Witness ==
    /\ InLoop
    /\ framebuffers.v[1].dimensions # window_size
    /\ events = << >>
    /\ recreate_swapchain

\* C7: when acquire reports out-of-date the flag is set and the handler
\* returns at once: nothing is recorded or handed to the queue, the tracker
\* and the swapchain state keep their values, the loop is not stopped by it;
\* the flag then stays set while events are dispatched, so the next tick's
\* CheckResize sees it.
C7_AcquireOutOfDateSkipsTick ==
    [][/\ (pc = "acquire" /\ last_step' = "acquire_out_of_date") =>
             /\ recreate_swapchain'
             /\ previous_frame_end' = previous_frame_end
             /\ command_buffer' = None
             /\ present' = None
             /\ swapchain' = swapchain
             /\ framebuffers' = framebuffers
             /\ control_flow' = control_flow
             /\ pc' = (IF control_flow = "Exit" THEN "exited" ELSE "dispatch")
       /\ (pc = "dispatch" /\ recreate_swapchain) => recreate_swapchain']_vars

\* The tick after a presented frame was cut short by out-of-date: the loop
\* is dispatching again, the flag is set, the tracker still holds the
\* previous frame's future.
C7_Witness ==
    /\ last_step = "acquire_out_of_date"
    /\ pc = "dispatch"
    /\ recreate_swapchain
    /\ previous_frame_end = Some(FrameFuture)

\* C8: when acquire succeeds but reports suboptimal the flag is set and the
\* tick goes on: it records on the acquired image's framebuffer, and what
\* it hands to the queue executes that command buffer and presents the
\* acquired image on the swapchain it was acquired from.
C8_SuboptimalStillRenders ==
    [][/\ (pc = "acquire" /\ last_step' = "acquire_suboptimal") =>
             /\ recreate_swapchain'
             /\ suboptimal'
             /\ pc' = "record"
             /\ acquire_future'.v.swapchain = swapchain.v.id
             /\ swapchain' = swapchain
       /\ (pc = "record" /\ suboptimal /\ pc' # pc) =>
             /\ pc' = "submit"
             /\ command_buffer'.v.framebuffer.swapchain = acquire_future.v.swapchain
             /\ command_buffer'.v.framebuffer.image = acquire_future.v.image
             /\ recreate_swapchain'
       /\ (pc = "submit" /\ suboptimal /\ pc' = "match_future") =>
             /\ present'.v.swapchain = acquire_future.v.swapchain
             /\ present'.v.image = acquire_future.v.image
             /\ present'.v.commands = command_buffer.v
             /\ recreate_swapchain']_vars

\* A suboptimal acquire was followed by a successful submit and present.
C8_Witness ==
    /\ pc = "match_future"
    /\ suboptimal
    /\ present # None
    /\ future.tag = "Ok"

\* C9: when the flush fails with out-of-date the flag is set and the
\* tracker is reset to a completed future; both survive the dispatching of
\* events, and a tick that finds the flag set reaches acquire only through a
\* recreate_swapchain call.
C9_FlushOutOfDateResets ==
    [][/\ (pc = "match_future" /\ last_step' = "flush_out_of_date") =>
             /\ recreate_swapchain'
             /\ previous_frame_end' = Some(NowFuture)
             /\ pc' = (IF control_flow = "Exit" THEN "exited" ELSE "dispatch")
       /\ pc = "dispatch" =>
             /\ previous_frame_end' = previous_frame_end
             /\ (recreate_swapchain => recreate_swapchain')
       /\ (pc = "check_resize" /\ recreate_swapchain /\ pc' = "acquire") =>
             last_step' \in {"recreate_ok", "recreate_unsupported"}]_vars

\* The flush failed with out-of-date and the loop is dispatching again.
C9_Witness ==
    /\ last_step = "flush_out_of_date"
    /\ pc = "dispatch"
    /\ recreate_swapchain
    /\ previous_frame_end = Some(NowFuture)

\* C10: when the flush fails with another error the handler returns
\* normally: no panic, control_flow and the flag untouched, the swapchain
\* state kept, the tracker reset to a completed future.
C10_FlushOtherErrorRecovers ==
    [][(pc = "match_future" /\ last_step' = "flush_other_error") =>
          /\ previous_frame_end' = Some(NowFuture)
          /\ recreate_swapchain' = recreate_swapchain
          /\ control_flow' = control_flow
          /\ swapchain' = swapchain
          /\ framebuffers' = framebuffers
          /\ viewport' = viewport
          /\ pc' = (IF control_flow = "Exit" THEN "exited" ELSE "dispatch")]_vars

\* The flush failed with another error; the loop is dispatching again with
\* no recreation pending.
C10_Witness ==
    /\ last_step = "flush_other_error"
    /\ pc = "dispatch"
    /\ ~recreate_swapchain
    /\ previous_frame_end = Some(NowFuture)

\* C11: handling a Resized event sets the flag and nothing else: swapchain,
\* framebuffers, viewport and the in-flight future are as before and the
\* loop keeps dispatching; in the loop the swapchain is only ever replaced
\* by the CheckResize step of a redraw tick, with the flag set.
C11_ResizeOnlySetsFlag ==
    [][/\ (/\ pc = "dispatch"
           /\ events # << >>
           /\ Head(events) = "Resized"
           /\ events' = Tail(events)) =>
             /\ recreate_swapchain'
             /\ swapchain' = swapchain
             /\ framebuffers' = framebuffers
             /\ viewport' = viewport
             /\ previous_frame_end' = previous_frame_end
             /\ pc' = "dispatch"
       /\ (InLoop /\ swapchain' # swapchain) =>
             /\ pc = "check_resize"
             /\ recreate_swapchain
             /\ last_step' = "recreate_ok"]_vars

\* A Resized event has been handled after a presented frame: the flag is
\* set, the swapchain still has the old size and the recreation is to come.
C11_Witness ==
    /\ last_step = "resized"
    /\ pc = "dispatch"
    /\ recreate_swapchain
    /\ swapchain.v.dimensions # window_size
    /\ CanBuild(window_size)
    /\ previous_frame_end = Some(FrameFuture)

\* C12: a redraw tick starts only when every queued event has been handled,
\* passes through CheckResize once, and a swapchain is created in the loop
\* only there: one swapchain per tick however many Resized events came
\* before it, built with the window size at that step.
C12_OneRecreationAtCurrentSize ==
    [][/\ (InLoop /\ next_id' # next_id) =>
             /\ pc = "check_resize"
             /\ pc' = "acquire"
             /\ next_id' = next_id + 1
             /\ swapchain'.v.id = next_id
             /\ swapchain'.v.dimensions = window_size
             /\ recreate_swapchain' = FALSE
       /\ (pc' = "check_resize" /\ pc # "check_resize") =>
             /\ pc = "dispatch"
             /\ events = << >>
       /\ (pc = "check_resize" /\ pc' # "check_resize") =>
             pc' \in {"acquire", "panicked"}
       /\ (pc = "acquire" /\ pc' # "acquire") =>
             pc' \in {"record", "dispatch", "exited", "panicked"}]_vars

\* After a presented frame two or more Resized events were handled, and the
\* tick that followed has built one swapchain, of the size the window has
\* now, which is not the size of the first swapchain.
C12_Witness ==
    /\ resizes_handled = 2
    /\ last_step = "recreate_ok"
    /\ pc = "acquire"
    /\ events = << >>
    /\ previous_frame_end = Some(FrameFuture)
    /\ swapchain.v.dimensions = window_size
    /\ window_size # images.v.dimensions

\* C13: the tracker holds one future whenever the loop is between ticks and
\* in every tick up to submission; submission takes it (the tracker is empty
\* only while the flush result is matched) and chains the frame onto it, and
\* every arm of that match stores a replacement before the handler returns:
\* the frame's own future on success, a fresh now() on failure.
C13_OneFutureInFlight ==
    /\ [](/\ pc \in {"dispatch", "check_resize", "acquire", "record", "submit"} =>
                previous_frame_end \in {Some(NowFuture), Some(FrameFuture)}
          /\ pc = "match_future" =>
                /\ previous_frame_end = None
                /\ present # None
                /\ future # None)
    /\ [][/\ (pc = "submit" /\ pc' = "match_future") =>
                /\ previous_frame_end # None
                /\ previous_frame_end' = None
                /\ present'.v.after[1] = previous_frame_end.v
          /\ (pc = "match_future" /\ pc' # "match_future") =>
                /\ pc' \in {"dispatch", "exited"}
                /\ previous_frame_end' =
                      IF future.tag = "Ok" THEN Some(future.v) ELSE Some(NowFuture)
          /\ (previous_frame_end' # previous_frame_end) =>
                pc \in {"start_loop", "submit", "match_future"}]_vars

\* A tick has taken the future stored by an earlier successful frame and
\* submitted its own frame after it; the replacement is about to be stored.
C13_Witness ==
    /\ pc = "match_future"
    /\ previous_frame_end = None
    /\ present # None
    /\ present.v.after[1] = FrameFuture
    /\ future = [tag |-> "Ok", v |-> FrameFuture]

\* C14: a redraw tick goes through its steps in one order: cleanup_finished,
\* then the flag check with the recreation, then acquire_next_image, then
\* recording, then the submission that ends in the present, then the match
\* on the flush result; a step is left only to the next one, to the end of
\* the tick or to a panic.  The submission happens with an acquired image
\* and a recorded command buffer, and what it hands to the queue waits for
\* the tracker's future joined with the acquire future.
C14_StepsInFixedOrder ==
    /\ [](pc \in {"submit", "match_future"} =>
             /\ image_num # None
             /\ acquire_future # None
             /\ command_buffer # None)
    /\ [][/\ (pc = "dispatch" /\ pc' # pc) =>
                /\ pc' \in {"check_resize", "exited", "panicked"}
                /\ pc' = "check_resize" => last_step' = "cleanup_finished"
          /\ (pc = "check_resize" /\ pc' # pc) => pc' \in {"acquire", "panicked"}
          /\ (pc = "acquire" /\ pc' # pc) =>
                /\ pc' \in {"record", "dispatch", "exited", "panicked"}
                /\ pc' = "record" => acquire_future' # None
          /\ (pc = "record" /\ pc' # pc) => pc' \in {"submit", "panicked"}
          /\ (pc = "submit" /\ pc' # pc) =>
                /\ pc' \in {"match_future", "panicked"}
                /\ pc' = "match_future" =>
                      /\ present'.v.after = << previous_frame_end.v, acquire_future.v >>
                      /\ present'.v.commands = command_buffer.v
                      /\ present'.v.image = image_num.v
          /\ (pc = "match_future" /\ pc' # pc) => pc' \in {"dispatch", "exited"}
          /\ (present' # present /\ present' # None) => pc = "submit"]_vars

\* A tick that recreated the swapchain in its flag check has gone on to
\* acquire, record and submit: the request it handed over waits for the
\* tracker's now() future and for the acquire future of the new swapchain.
C14_Witness ==
    /\ last_step = "submitted"
    /\ pc = "match_future"
    /\ acquire_future.v.swapchain = next_id - 1
    /\ swapchain.v.id > 1
    /\ present.v.after = << NowFuture, acquire_future.v >>

\* C15: once created the vertex buffer holds the three vertices of set-up,
\* and every command buffer recorded, and every one handed to the queue,
\* draws 3 vertices and 1 instance from vertex 0 and instance 0.
C15_DrawsThreeVerticesOnce ==
    /\ (vertex_buffer # None =>
           vertex_buffer = Some(<< <<5, 5>>, <<-5, 5>>, <<0, -5>> >>))
    /\ (pc \in {"record", "submit", "match_future"} => vertex_buffer # None)
    /\ (command_buffer # None =>
           /\ command_buffer.v.vertex_count = 3
           /\ command_buffer.v.instance_count = 1
           /\ command_buffer.v.first_vertex = 0
           /\ command_buffer.v.first_instance = 0)
    /\ (present # None =>
           /\ present.v.commands.vertex_count = 3
           /\ present.v.commands.instance_count = 1)

\* A frame recorded after an earlier frame was presented and after the
\* swapchain was recreated.
C15_Witness ==
    /\ pc = "submit"
    /\ last_step = "recorded"
    /\ command_buffer # None
    /\ previous_frame_end = Some(FrameFuture)
    /\ swapchain.v.id > 1

\* C16 as stated: whatever the step, a swapchain, a framebuffer list or a
\* viewport that exists is replaced only together with the other two.
C16_NoOperationReplacesOneAlone ==
    [][/\ (swapchain # None /\ swapchain' # swapchain) =>
             (framebuffers' # framebuffers)
       /\ (framebuffers # None /\ framebuffers' # framebuffers) =>
             (swapchain' # swapchain)
       /\ (viewport # None /\ viewport' # viewport) =>
             (swapchain' # swapchain /\ framebuffers' # framebuffers)]_vars

\* C16: once set-up has built the three of them, a step that replaces the
\* swapchain replaces the framebuffers and one that replaces the framebuffers
\* replaces the swapchain, the viewport changes only in such a step, and the
\* step leaves one framebuffer per image of the new swapchain and the
\* viewport of its size; wherever a frame is recorded the viewport, every
\* framebuffer and the swapchain's images have the same dimensions, and so
\* has what the command buffer carries.
C16_ReplacedTogether ==
    /\ []((pc \in {"record", "submit", "match_future"}) =>
             /\ viewport.v.dimensions = << AsF32(swapchain.v.dimensions[1]),
                                           AsF32(swapchain.v.dimensions[2]) >>
             /\ ImagesOf(swapchain.v).dimensions = swapchain.v.dimensions
             /\ Len(framebuffers.v) = ImagesOf(swapchain.v).count
             /\ \A i \in 1..Len(framebuffers.v) :
                   /\ framebuffers.v[i].dimensions = ImagesOf(swapchain.v).dimensions
                   /\ framebuffers.v[i].swapchain = swapchain.v.id
             /\ (command_buffer # None =>
                   /\ command_buffer.v.viewport = viewport.v
                   /\ command_buffer.v.framebuffer = framebuffers.v[image_num.v]))
    /\ [][framebuffers # None =>
             /\ (swapchain' # swapchain) <=> (framebuffers' # framebuffers)
             /\ (viewport' # viewport) => (swapchain' # swapchain)
             /\ (swapchain' # swapchain) =>
                   /\ viewport'.v.dimensions = << AsF32(swapchain'.v.dimensions[1]),
                                                  AsF32(swapchain'.v.dimensions[2]) >>
                   /\ \A i \in 1..Len(framebuffers'.v) :
                         /\ framebuffers'.v[i].swapchain = swapchain'.v.id
                         /\ framebuffers'.v[i].dimensions = swapchain'.v.dimensions]_vars

\* A frame is recorded on a swapchain that replaced the first one and has
\* another size, while the window has changed size once more.
C16_Witness ==
    /\ last_step = "recorded"
    /\ command_buffer # None
    /\ swapchain.v.id > 1
    /\ swapchain.v.dimensions # images.v.dimensions
    /\ swapchain.v.dimensions # window_size
    /\ command_buffer.v.framebuffer.dimensions = swapchain.v.dimensions

\* C17: a recreation that reports unsupported dimensions leaves the flag
\* set and the tick goes on to acquire; with the flag set the flag check of
\* a tick is always a recreation attempt; and the flag goes from set to
\* clear in one step only, a recreation that succeeds and stores a new
\* swapchain.
C17_UnsupportedKeepsRequest ==
    [][/\ (pc = "check_resize" /\ last_step' = "recreate_unsupported") =>
             /\ recreate_swapchain
             /\ recreate_swapchain'
             /\ pc' = "acquire"
       /\ (pc = "check_resize" /\ recreate_swapchain /\ pc' # pc) =>
             last_step' \in {"recreate_ok", "recreate_unsupported", "recreate_failed"}
       /\ (recreate_swapchain /\ ~recreate_swapchain') =>
             /\ pc = "check_resize"
             /\ last_step' = "recreate_ok"
             /\ swapchain'.v.id = next_id
             /\ swapchain' # swapchain]_vars

\* A tick that no Resized event preceded found the flag still set, tried
\* the recreation and got unsupported dimensions: the request is kept.
C17_Witness ==
    /\ last_step = "recreate_unsupported"
    /\ pc = "acquire"
    /\ recreate_swapchain
    /\ resizes_handled = 0
    /\ previous_frame_end = Some(FrameFuture)

\* C18 as stated: the first frame recorded carries a viewport of the
\* dimensions the swapchain was first created with.
C18_FirstFrameUsesInitialDimensions ==
    (command_buffer # None /\ ~frame_recorded) =>
        command_buffer.v.viewport.dimensions =
            << AsF32(images.v.dimensions[1]), AsF32(images.v.dimensions[2]) >>

\* C18: when the loop starts create_framebuffers has overwritten the
\* placeholder with the dimensions of the first swapchain's images; in the
\* loop the viewport is never zero-sized and no command buffer carries a
\* zero-sized viewport; the first frame recorded carries the dimensions of
\* the swapchain then in use, which is the first swapchain or, when a
\* recreation succeeded before that frame, the recreated one.
C18_NoZeroSizedViewport ==
    /\ (pc = "start_loop" =>
           /\ swapchain.v.dimensions = images.v.dimensions
           /\ viewport.v.dimensions = << AsF32(images.v.dimensions[1]),
                                         AsF32(images.v.dimensions[2]) >>)
    /\ ((pc = "start_loop" \/ InLoop) =>
           /\ viewport.v.dimensions[1] > 0
           /\ viewport.v.dimensions[2] > 0)
    /\ (command_buffer # None =>
           /\ command_buffer.v.viewport.dimensions[1] > 0
           /\ command_buffer.v.viewport.dimensions[2] > 0)
    /\ ((command_buffer # None /\ ~frame_recorded) =>
           /\ command_buffer.v.viewport.dimensions =
                 << AsF32(swapchain.v.dimensions[1]), AsF32(swapchain.v.dimensions[2]) >>
           /\ (swapchain.v.id = 1 => swapchain.v.dimensions = images.v.dimensions)
           /\ (swapchain.v.id # 1 => swapchain.v.dimensions = recreate_read.v))

\* The first frame is recorded: no tick before it got as far as recording,
\* a recreation came first, and the viewport has the recreated swapchain's
\* dimensions, which are not those of the first swapchain.
C18_Witness ==
    /\ command_buffer # None
    /\ ~frame_recorded
    /\ last_step = "recorded"
    /\ swapchain.v.id # 1
    /\ command_buffer.v.viewport.dimensions # images.v.dimensions
    /\ command_buffer.v.viewport.dimensions[1] > 0

\* C19: in a run where redraw ticks keep occurring (so the loop neither
\* exits nor panics) and from some point on the window keeps a size a
\* swapchain can be built with and the bound on recreations is not
\* exhausted, a set flag is always followed by a recreation that succeeds.
C19_PendingRecreateIsServed ==
    ([]<>(pc = "check_resize")
        /\ <>[](CanBuild(window_size) /\ next_id <= MaxRecreations + 1))
        => (recreate_swapchain ~> (last_step = "recreate_ok" /\ ~recreate_swapchain))

\* A recreation has succeeded in a tick that no Resized event preceded:
\* the request it served was pending from an earlier tick.
C19_Witness ==
    /\ last_step = "recreate_ok"
    /\ pc = "acquire"
    /\ ~recreate_swapchain
    /\ resizes_handled = 0
    /\ frame_recorded
    /\ swapchain.v.dimensions = window_size

====
